---------------------------- MODULE Spec2Model ----------------------------
(***************************************************************************)
(* A model of the WitMotion BLE device session of device_model.py:        *)
(*   - the receive pipeline: onDataReceived (reassembly buffer, resync,   *)
(*     20-byte frame extraction) and processData (decoding into the       *)
(*     deviceData store, packet log, consumer callback);                  *)
(*   - the command path: sendData, readReg, writeReg, unlock, save and    *)
(*     the background polling task _sendDataLoop.                         *)
(* Spec is the receive pipeline, CmdSpec the command path.                *)
(***************************************************************************)
EXTENDS Integers, Sequences, FiniteSets, TLC

VARIABLES
    buffer,       \* self._buffer: the reassembly buffer, a sequence of bytes
    deviceData,   \* self.deviceData: channel name -> last value (a function on the set channels)
    rxpc,         \* position of onDataReceived: "idle" (not running) or "loop" (at the while test)
    rxExit,       \* how the last onDataReceived call ended: "none", "returned", "raised"
    units,        \* what the sensor has put on the air so far: a sequence of frames / garbage bytes
    wire,         \* bytes emitted by the sensor and not yet handed to onDataReceived
    fed,          \* concatenation of all chunks passed to onDataReceived so far
    trace,        \* observable effects of the pipeline, in order (drops, frames, log lines, sets, callbacks)
    failures,     \* number of processData calls that raised so far
    splitSeen,    \* some call has returned leaving a partial frame (1..19 bytes) in the buffer
    \* --- the session and the command path ---
    client,       \* self.client is not None
    connected,    \* self.client.is_connected
    writerChar,   \* self.writer_characteristic is not None
    notifyChar,   \* openDevice's local notify_characteristic is not None
    notifying,    \* start_notify has subscribed onDataReceived
    isOpen,       \* self.isOpen
    openpc,       \* position of openDevice
    closepc,      \* position of closeDevice
    pollpc,       \* state of the task self._bg_task running _sendDataLoop ("none": no task)
    polls,        \* number of read commands the polling task has issued
    callOp,       \* the operation the calling task runs or ran last
    callProg,     \* what is left of it: the sendData calls and settle waits still to do
    callpc,       \* position of the calling task: "idle", "inWrite", "sleeping", "done"
    callLog,      \* what the current/last operation did, in order
    callResult,   \* how it ended: "none", "returned", "raised"
    callStable,   \* the device was ready when the operation started and has stayed so
    callFailed,   \* a transport write of the current/last operation has failed
    calls,        \* number of operations started
    sent,         \* every command handed to client.write_gatt_char, in order, with its origin
    \* --- pure functions applied to drawn inputs ---
    fnIn,         \* the function and its arguments
    fnOut         \* its result, once applied

rxVars == <<buffer, deviceData, rxpc, rxExit, units, wire, fed, trace, failures, splitSeen>>

cmdVars == <<client, connected, writerChar, notifyChar, notifying, isOpen, openpc, closepc,
             pollpc, polls, callOp, callProg, callpc, callLog, callResult, callStable, callFailed, calls, sent>>

fnVars == <<fnIn, fnOut>>

vars == <<rxVars, cmdVars, fnVars>>

-----------------------------------------------------------------------------
(* Bounds of the model *)

MaxUnits == 3
MaxFailures == 1
MaxPolls == 2
MaxCalls == 1
MaxSets == 3

-----------------------------------------------------------------------------
(* Wire format constants *)

FrameLen == 20
Header == 85
TypeMotion == 97
TypeOrient == 113
SubMag == 58
SubQuat == 81

\* packet[i] of the code is P(packet, i): Python indexes from 0, TLA+ from 1
P(packet, i) == packet[i + 1]

-----------------------------------------------------------------------------
(* Sample inputs: the frames and garbage bytes the sensor may emit *)

FrameMotion ==
    <<85, 97, 0, 64, 255, 255, 0, 128, 128, 0, 255, 127, 1, 0, 0, 192, 85, 113, 85, 97>>

FrameQuat ==
    <<85, 113, 81, 0, 0, 64, 255, 255, 0, 128, 1, 0, 0, 0, 0, 0, 0, 0, 0, 0>>

FrameMag ==
    <<85, 113, 58, 0, 120, 0, 136, 255, 1, 0, 0, 0, 0, 0, 0, 0, 0, 0, 0, 0>>

FrameUnrec ==
    <<85, 113, 64, 0, 1, 2, 3, 4, 5, 6, 7, 8, 0, 0, 0, 0, 0, 0, 0, 0>>

SampleFrames == {FrameMotion, FrameQuat, FrameMag, FrameUnrec}

GarbageBytes == {85, 97}

SensorUnits == SampleFrames \cup {<<g>> : g \in GarbageBytes}

IsValidFrame(u) ==
    /\ Len(u) = FrameLen
    /\ u[1] = Header
    /\ u[2] \in {TypeMotion, TypeOrient}

RECURSIVE Flatten(_)
Flatten(us) == IF us = <<>> THEN <<>> ELSE Head(us) \o Flatten(Tail(us))

-----------------------------------------------------------------------------
(* Decoding *)

\* a sign extension that leaves 0x8000 positive
getSignInt16Above(num) == IF num > 32768 THEN num - 65536 ELSE num

getSignInt16(num) == IF num >= 32768 THEN num - 65536 ELSE num

\* a byte pair read with its first byte as the high byte
WordBigEndian(packet, lo, hi) == P(packet, lo) * 256 + P(packet, hi)

\* packet[hi] << 8 | packet[lo] on bytes
Word(packet, lo, hi) == P(packet, hi) * 256 + P(packet, lo)

\* round(n / d * 10^k, ...) on exact rationals, ties to even as Python's round; d > 0
RoundDiv(n, d) ==
    LET q == n \div d
        r == n % d
    IN  IF 2 * r < d THEN q
        ELSE IF 2 * r > d THEN q + 1
        ELSE IF q % 2 = 0 THEN q ELSE q + 1

\* Channel values are kept as integers: thousandths (round(x, 3)) for all channels
\* but Q0..Q3, which are kept in units of 10^-5 (round(x, 5)). The fractions are
\* reduced so that every product stays below 2^31:
\*   1000 * 16 * 9.80665 / 32768 = 196133 / 40960 = 4 + 32293 / 40960
\*   1000 * 2000 / 32768 = 15625 / 256,  1000 * 180 / 32768 = 5625 / 1024
\*   1000 / 120 = 25 / 3,  100000 / 32768 = 3125 / 1024
AccValue(raw) == 4 * getSignInt16(raw) + RoundDiv(getSignInt16(raw) * 32293, 40960)
GyroValue(raw) == RoundDiv(getSignInt16(raw) * 15625, 256)
AngleValue(raw) == RoundDiv(getSignInt16(raw) * 5625, 1024)
MagValue(raw) == RoundDiv(getSignInt16(raw) * 25, 3)
QuatValue(raw) == RoundDiv(getSignInt16(raw) * 3125, 1024)

Channels == {"AccX", "AccY", "AccZ", "AsX", "AsY", "AsZ", "AngX", "AngY", "AngZ",
             "HX", "HY", "HZ", "Q0", "Q1", "Q2", "Q3"}

\* The set calls of processData for a packet, in program order
MotionSets(packet) ==
    << <<"AccX", AccValue(Word(packet, 2, 3))>>,
       <<"AccY", AccValue(Word(packet, 4, 5))>>,
       <<"AccZ", AccValue(Word(packet, 6, 7))>>,
       <<"AsX", GyroValue(Word(packet, 8, 9))>>,
       <<"AsY", GyroValue(Word(packet, 10, 11))>>,
       <<"AsZ", GyroValue(Word(packet, 12, 13))>>,
       <<"AngX", AngleValue(Word(packet, 14, 15))>>,
       <<"AngY", AngleValue(Word(packet, 16, 17))>>,
       <<"AngZ", AngleValue(Word(packet, 18, 19))>> >>

MagSets(packet) ==
    << <<"HX", MagValue(Word(packet, 4, 5))>>,
       <<"HY", MagValue(Word(packet, 6, 7))>>,
       <<"HZ", MagValue(Word(packet, 8, 9))>> >>

QuatSets(packet) ==
    << <<"Q0", QuatValue(Word(packet, 4, 5))>>,
       <<"Q1", QuatValue(Word(packet, 6, 7))>>,
       <<"Q2", QuatValue(Word(packet, 8, 9))>>,
       <<"Q3", QuatValue(Word(packet, 10, 11))>> >>

\* a store that keeps the first value written to a channel
SetKeepsFirst(data, key, value) ==
    [k \in DOMAIN data \cup {key} |-> IF k \in DOMAIN data THEN data[k] ELSE value]

\* self.deviceData[key] = value
Set(data, key, value) ==
    [k \in DOMAIN data \cup {key} |-> IF k = key THEN value ELSE data[k]]

None == "None"

\* self.deviceData.get(key, None)
Get(data, key) == IF key \in DOMAIN data THEN data[key] ELSE None

\* the channels the applications' update_data reads
RowChannels == {"AccX", "AccY", "AccZ", "AsX", "AsY", "AsZ", "AngX", "AngY", "AngZ",
                "Q0", "Q1", "Q2", "Q3"}

\* update_data(device) of the applications: for each channel "device.get(c) or 0.0",
\* the values it appends to the history and writes to the CSV row. None (the
\* channel is unset) and 0.0 are both false for "or", so both give 0.0.
update_data(data) == [c \in RowChannels |-> IF c \in DOMAIN data THEN data[c] ELSE 0]

RECURSIVE ApplySets(_, _)
ApplySets(data, sets) ==
    IF sets = <<>> THEN data
    ELSE ApplySets(Set(data, Head(sets)[1], Head(sets)[2]), Tail(sets))

SetEvents(sets) == [i \in 1..Len(sets) |-> <<"set", sets[i][1], sets[i][2]>>]

\* The outcomes processData can have for a packet: it returns, or the packet log
\* write raises (before any set), or the consumer callback raises (after the sets).
\* Only the 0x61 branch writes the log and calls the callback.
Outcomes(packet) ==
    IF P(packet, 1) = TypeMotion THEN {"ok", "log_raises", "callback_raises"} ELSE {"ok"}

\* a decoder that takes every 0x71 frame that is not a magnetometer frame for a quaternion frame
SetsOfQuatDefault(packet) ==
    IF P(packet, 1) = TypeMotion THEN MotionSets(packet)
    ELSE IF P(packet, 2) = SubMag THEN MagSets(packet)
    ELSE QuatSets(packet)

\* Which set calls processData makes for a packet
SetsOf(packet) ==
    IF P(packet, 1) = TypeMotion THEN MotionSets(packet)
    ELSE IF P(packet, 2) = SubMag THEN MagSets(packet)
    ELSE IF P(packet, 2) = SubQuat THEN QuatSets(packet)
    ELSE <<>>

\* processData that calls the consumer before it has written the sample
ProcessDataCallbackFirst(packet, data, outcome) ==
    IF P(packet, 1) = TypeMotion
    THEN IF outcome = "log_raises"
         THEN [data |-> data, events |-> <<>>]
         ELSE [data |-> ApplySets(data, SetsOf(packet)),
               events |-> << <<"log", packet>>, <<"callback", data>> >>
                          \o SetEvents(SetsOf(packet))]
    ELSE [data |-> ApplySets(data, SetsOf(packet)), events |-> SetEvents(SetsOf(packet))]

\* processData(packet) with the given outcome: the new store and the effects, in order
ProcessData(packet, data, outcome) ==
    IF P(packet, 1) = TypeMotion
    THEN IF outcome = "log_raises"
         THEN [data |-> data, events |-> <<>>]
         ELSE LET d2 == ApplySets(data, SetsOf(packet))
              IN  [data |-> d2,
                   events |-> << <<"log", packet>> >> \o SetEvents(SetsOf(packet))
                              \o << <<"callback", d2>> >>]
    ELSE LET d2 == ApplySets(data, SetsOf(packet))
         IN  [data |-> d2, events |-> SetEvents(SetsOf(packet))]

-----------------------------------------------------------------------------
(* onDataReceived *)

\* a loop test that is off by one
LoopTestStrict(buf) == Len(buf) > FrameLen

\* while len(self._buffer) >= 20
LoopTest(buf) == Len(buf) >= FrameLen

\* a header test that accepts any byte
HeaderOkAny(buf) == TRUE

\* self._buffer[0] == 0x55
HeaderOk(buf) == buf[1] = Header

\* a type test that accepts any byte
TypeOkAny(buf) == TRUE

\* self._buffer[1] in [0x61, 0x71]
TypeOk(buf) == buf[2] \in {TypeMotion, TypeOrient}

\* a resync that drops two bytes
PopFirstTwo(buf) == Tail(Tail(buf))

\* self._buffer.pop(0)
PopFirst(buf) == Tail(buf)

\* an extraction that takes the newest 20 bytes of the buffer as the packet
PacketOfNewest(buf) == SubSeq(buf, Len(buf) - FrameLen + 1, Len(buf))

\* packet = self._buffer[:20]
PacketOf(buf) == SubSeq(buf, 1, FrameLen)

\* an extraction that leaves the last byte of the packet in the buffer
AfterPacketKeepsLast(buf) == SubSeq(buf, FrameLen, Len(buf))

\* an extraction that throws the rest of the buffer away
AfterPacketClears(buf) == <<>>

\* self._buffer = self._buffer[20:]
AfterPacket(buf) == SubSeq(buf, FrameLen + 1, Len(buf))

\* The sensor puts one more frame or garbage byte on the air (environment).
SensorEmit(u) ==
    /\ UNCHANGED <<cmdVars, fnVars>>
    /\ rxpc = "idle"
    /\ Len(units) < MaxUnits
    /\ units' = Append(units, u)
    /\ wire' = wire \o u
    /\ UNCHANGED <<buffer, deviceData, rxpc, rxExit, fed, trace, failures, splitSeen>>

\* The transport calls onDataReceived with the next n bytes: self._buffer.extend(data)
OnDataReceived(n) ==
    /\ UNCHANGED <<cmdVars, fnVars>>
    /\ rxpc = "idle"
    /\ buffer' = buffer \o SubSeq(wire, 1, n)
    /\ fed' = fed \o SubSeq(wire, 1, n)
    /\ wire' = SubSeq(wire, n + 1, Len(wire))
    /\ rxpc' = "loop"
    /\ UNCHANGED <<deviceData, rxExit, units, trace, failures, splitSeen>>

\* if self._buffer[0] != 0x55: pop(0); continue
DropBadHeader ==
    /\ UNCHANGED <<cmdVars, fnVars>>
    /\ rxpc = "loop"
    /\ LoopTest(buffer)
    /\ ~HeaderOk(buffer)
    /\ buffer' = PopFirst(buffer)
    /\ trace' = Append(trace, <<"drop", buffer[1]>>)
    /\ UNCHANGED <<deviceData, rxpc, rxExit, units, wire, fed, failures, splitSeen>>

\* if self._buffer[1] not in [0x61, 0x71]: pop(0); continue
DropBadType ==
    /\ UNCHANGED <<cmdVars, fnVars>>
    /\ rxpc = "loop"
    /\ LoopTest(buffer)
    /\ HeaderOk(buffer)
    /\ ~TypeOk(buffer)
    /\ buffer' = PopFirst(buffer)
    /\ trace' = Append(trace, <<"drop", buffer[1]>>)
    /\ UNCHANGED <<deviceData, rxpc, rxExit, units, wire, fed, failures, splitSeen>>

\* an extraction that removes the packet from the buffer only after processData
\* has returned: a packet whose processData raises stays in the buffer
ExtractFrameAfterDecode(outcome) ==
    /\ UNCHANGED <<cmdVars, fnVars>>
    /\ rxpc = "loop"
    /\ LoopTest(buffer)
    /\ HeaderOk(buffer)
    /\ TypeOk(buffer)
    /\ outcome \in Outcomes(PacketOf(buffer))
    /\ outcome # "ok" => failures < MaxFailures
    /\ LET packet == PacketOf(buffer)
           r == ProcessData(packet, deviceData, outcome)
       IN  /\ buffer' = IF outcome = "ok" THEN AfterPacket(buffer) ELSE buffer
           /\ deviceData' = r.data
           /\ trace' = Append(trace, <<"frame", packet>>) \o r.events
                       \o (IF outcome = "ok" THEN <<>> ELSE << <<"raise", outcome>> >>)
    /\ IF outcome = "ok"
       THEN UNCHANGED <<rxpc, rxExit, failures>>
       ELSE /\ rxpc' = "idle"
            /\ rxExit' = "raised"
            /\ failures' = failures + 1
    /\ UNCHANGED <<units, wire, fed, splitSeen>>

\* packet = buffer[:20]; buffer = buffer[20:]; self.processData(packet)
ExtractFrame(outcome) ==
    /\ UNCHANGED <<cmdVars, fnVars>>
    /\ rxpc = "loop"
    /\ LoopTest(buffer)
    /\ HeaderOk(buffer)
    /\ TypeOk(buffer)
    /\ outcome \in Outcomes(PacketOf(buffer))
    /\ outcome # "ok" => failures < MaxFailures
    /\ LET packet == PacketOf(buffer)
           r == ProcessData(packet, deviceData, outcome)
       IN  /\ buffer' = AfterPacket(buffer)
           /\ deviceData' = r.data
           /\ trace' = Append(trace, <<"frame", packet>>) \o r.events
                       \o (IF outcome = "ok" THEN <<>> ELSE << <<"raise", outcome>> >>)
    /\ IF outcome = "ok"
       THEN UNCHANGED <<rxpc, rxExit, failures>>
       ELSE /\ rxpc' = "idle"
            /\ rxExit' = "raised"
            /\ failures' = failures + 1
    /\ UNCHANGED <<units, wire, fed, splitSeen>>

\* the while test fails: onDataReceived returns
LoopExit ==
    /\ UNCHANGED <<cmdVars, fnVars>>
    /\ rxpc = "loop"
    /\ ~LoopTest(buffer)
    /\ rxpc' = "idle"
    /\ rxExit' = "returned"
    /\ splitSeen' = (splitSeen \/ Len(buffer) > 0)
    /\ UNCHANGED <<buffer, deviceData, units, wire, fed, trace, failures>>


\* One call of onDataReceived as a function: the drain loop run to its end on a
\* buffer, every processData returning normally.
RECURSIVE DrainAll(_, _, _)
DrainAll(buf, data, tr) ==
    IF ~LoopTest(buf) THEN [buffer |-> buf, data |-> data, trace |-> tr]
    ELSE IF ~HeaderOk(buf) \/ ~TypeOk(buf)
    THEN DrainAll(PopFirst(buf), data, Append(tr, <<"drop", buf[1]>>))
    ELSE LET r == ProcessData(PacketOf(buf), data, "ok")
         IN  DrainAll(AfterPacket(buf), r.data,
                      Append(tr, <<"frame", PacketOf(buf)>>) \o r.events)

\* onDataReceived(data) once on a freshly constructed DeviceModel
WholeRun(data) == DrainAll(<<>> \o data, <<>>, <<>>)

RxInit ==
    /\ buffer = <<>>
    /\ deviceData = <<>>
    /\ rxpc = "idle"
    /\ rxExit = "none"
    /\ units = <<>>
    /\ wire = <<>>
    /\ fed = <<>>
    /\ trace = <<>>
    /\ failures = 0
    /\ splitSeen = FALSE

-----------------------------------------------------------------------------
(* Commands *)

\* [0xff, 0xaa, 0x27, regAddr, 0x00]
get_readBytes(regAddr) == <<255, 170, 39, regAddr, 0>>

\* a write command with the value's bytes in big-endian order
get_writeBytesBigEndian(regAddr, rValue) == <<255, 170, regAddr, rValue \div 256, rValue % 256>>

\* [0xff, 0xaa, regAddr, rValue & 0xff, rValue >> 8]
get_writeBytes(regAddr, rValue) == <<255, 170, regAddr, rValue % 256, rValue \div 256>>

UnlockCmd == get_writeBytes(105, 46472)

SaveCmd == get_writeBytes(0, 0)

\* the register _sendDataLoop polls
PollReg == 81

\* the command of the applications' calibrate_acceleration
CalibrateCmd == <<255, 170, 1, 1>>

\* An operation of the calling task is the sequence of its awaits, in program
\* order: <<"send", cmd>> is "await self.sendData(cmd)", <<"sleep">> is
\* "await asyncio.sleep(0.1)".
SendStep(cmd) == <<"send", cmd>>

SleepStep == <<"sleep">>

unlock == << SendStep(UnlockCmd) >>

save == << SendStep(SaveCmd) >>

readReg(regAddr) == << SendStep(get_readBytes(regAddr)) >>

\* a persisted write that sends the target write before the unlock
writeRegBeforeUnlock(regAddr, sValue) ==
    << SendStep(get_writeBytes(regAddr, sValue)) >> \o << SleepStep >> \o unlock
           \o << SleepStep >> \o save

writeReg(regAddr, sValue) ==
    unlock \o << SleepStep >> \o << SendStep(get_writeBytes(regAddr, sValue)) >>
           \o << SleepStep >> \o save

\* a handshake that is the persisted write alone
set_sampling_rateBare(hz_code) == writeReg(3, hz_code)

set_sampling_rate(hz_code) ==
    unlock \o << SleepStep >> \o writeReg(3, hz_code) \o << SleepStep >> \o save

calibrate_acceleration == << SendStep(CalibrateCmd) >>

\* The operations the calling task may run, with their arguments
Operations ==
    {<<"writeReg", 3, 9>>, <<"writeReg", 81, 46472>>, <<"readReg", 81>>,
     <<"set_sampling_rate", 9>>, <<"calibrate_acceleration">>}

Program(op) ==
    IF op[1] = "writeReg" THEN writeReg(op[2], op[3])
    ELSE IF op[1] = "readReg" THEN readReg(op[2])
    ELSE IF op[1] = "set_sampling_rate" THEN set_sampling_rate(op[2])
    ELSE calibrate_acceleration

\* a sendData that does not test the write characteristic
SendGuardNoWriter == client /\ connected

\* sendData's test: self.client and self.client.is_connected and self.writer_characteristic
SendGuard == client /\ connected /\ writerChar

\* The calling task runs from one suspension to the next: a sendData whose test
\* fails returns without suspending, a write or a sleep suspends.
RECURSIVE RunToAwait(_, _)
RunToAwait(prog, ready) ==
    IF prog = <<>>
    THEN [pc |-> "done", prog |-> <<>>, issued |-> <<>>, log |-> <<>>]
    ELSE IF Head(prog) = SleepStep
    THEN [pc |-> "sleeping", prog |-> Tail(prog), issued |-> <<>>, log |-> << <<"sleep">> >>]
    ELSE IF ready
    THEN [pc |-> "inWrite", prog |-> Tail(prog), issued |-> << Head(prog)[2] >>,
          log |-> << <<"write", Head(prog)[2]>> >>]
    ELSE LET r == RunToAwait(Tail(prog), ready)
         IN  [r EXCEPT !.log = << <<"skipped", Head(prog)[2]>> >> \o r.log]

\* How an operation ends for its caller, given whether a transport write of it
\* failed: sendData catches the exception and prints it, so the operation returns.
ResultOf(failed) == "returned"

Continue(prog, log, id) ==
    LET r == RunToAwait(prog, SendGuard)
    IN  /\ callProg' = r.prog
        /\ callpc' = r.pc
        /\ callLog' = log \o r.log
        /\ sent' = sent \o [i \in 1..Len(r.issued) |->
                              [by |-> "call", call |-> id, op |-> callOp'[1], cmd |-> r.issued[i]]]
        /\ callResult' = IF r.pc = "done" THEN ResultOf(callFailed') ELSE "none"

\* A caller starts an operation of the device model
CallStart(op) ==
    /\ callpc \in {"idle", "done"}
    /\ calls < MaxCalls
    /\ calls' = calls + 1
    /\ callOp' = op
    /\ callStable' = SendGuard
    /\ callFailed' = FALSE
    /\ Continue(Program(op), <<>>, calls + 1)
    /\ UNCHANGED <<client, connected, writerChar, notifyChar, notifying, isOpen, openpc,
                   closepc, pollpc, polls>>
    /\ UNCHANGED <<rxVars, fnVars>>

\* The transport completes (or fails) the write the calling task awaits
CallWriteDone(outcome) ==
    /\ callpc = "inWrite"
    /\ outcome \in {"ok", "error"}
    /\ callFailed' = (callFailed \/ outcome = "error")
    /\ UNCHANGED callOp
    /\ Continue(callProg, Append(callLog, <<"completed">>), calls)
    /\ UNCHANGED <<client, connected, writerChar, notifyChar, notifying, isOpen, openpc,
                   closepc, pollpc, polls, callStable, calls>>
    /\ UNCHANGED <<rxVars, fnVars>>

\* The settle wait of the calling task is over
CallWake ==
    /\ callpc = "sleeping"
    /\ UNCHANGED <<callFailed, callOp>>
    /\ Continue(callProg, callLog, calls)
    /\ UNCHANGED <<client, connected, writerChar, notifyChar, notifying, isOpen, openpc,
                   closepc, pollpc, polls, callStable, calls>>
    /\ UNCHANGED <<rxVars, fnVars>>

-----------------------------------------------------------------------------
(* The polling task: _sendDataLoop *)

\* a loop that polls once and then ends
PollTestOnce == isOpen /\ client /\ connected /\ polls = 0

\* while self.isOpen and self.client and self.client.is_connected
PollTest == isOpen /\ client /\ connected

\* The task runs from its start, or from the end of its sleep, to its next
\* suspension: the while test, then readReg(0x51) up to the write it awaits.
PollRun ==
    /\ pollpc \in {"created", "sleeping"}
    /\ IF PollTest
       THEN IF SendGuard
            THEN /\ polls < MaxPolls
                 /\ sent' = Append(sent, [by |-> "poll", call |-> 0, op |-> "_sendDataLoop",
                                       cmd |-> get_readBytes(PollReg)])
                 /\ polls' = polls + 1
                 /\ pollpc' = "inWrite"
            ELSE /\ pollpc' = "sleeping"
                 /\ UNCHANGED <<sent, polls>>
       ELSE /\ pollpc' = "ended"
            /\ UNCHANGED <<sent, polls>>
    /\ UNCHANGED <<client, connected, writerChar, notifyChar, notifying, isOpen, openpc,
                   closepc, callOp, callProg, callpc, callLog, callResult, callStable, callFailed, calls>>
    /\ UNCHANGED <<rxVars, fnVars>>

\* The transport completes (or fails) the read command; sendData swallows a
\* failure, and the task goes to sleep for 0.1 s.
PollWriteDone(outcome) ==
    /\ pollpc = "inWrite"
    /\ outcome \in {"ok", "error"}
    /\ pollpc' = "sleeping"
    /\ UNCHANGED <<client, connected, writerChar, notifyChar, notifying, isOpen, openpc,
                   closepc, polls, callOp, callProg, callpc, callLog, callResult, callStable, callFailed,
                   calls, sent>>
    /\ UNCHANGED <<rxVars, fnVars>>

-----------------------------------------------------------------------------
(* openDevice *)

\* self.client = BleakClient(...); await self.client.connect()
OpenStart ==
    /\ openpc = "init"
    /\ client' = TRUE
    /\ openpc' = "connecting"
    /\ UNCHANGED <<connected, writerChar, notifyChar, notifying, isOpen, closepc, pollpc,
                   polls, callOp, callProg, callpc, callLog, callResult, callStable, callFailed, calls, sent>>
    /\ UNCHANGED <<rxVars, fnVars>>

\* connect() raises: openDevice raises to its caller
OpenConnectFails ==
    /\ openpc = "connecting"
    /\ openpc' = "raised"
    /\ UNCHANGED <<client, connected, writerChar, notifyChar, notifying, isOpen, closepc,
                   pollpc, polls, callOp, callProg, callpc, callLog, callResult, callStable, callFailed,
                   calls, sent>>
    /\ UNCHANGED <<rxVars, fnVars>>

\* connect() returns: isOpen = True, then the search of the services for the
\* notify and the write characteristic (what the device offers is the
\* environment's choice), up to the next await.
OpenConnected(hasNotify, hasWriter) ==
    /\ openpc = "connecting"
    /\ connected' = TRUE
    /\ isOpen' = TRUE
    /\ notifyChar' = hasNotify
    /\ writerChar' = hasWriter
    /\ openpc' = IF hasWriter THEN "sleep3"
                 ELSE IF hasNotify THEN "subscribing"
                 ELSE "returned"
    /\ UNCHANGED <<client, notifying, closepc, pollpc, polls, callOp, callProg, callpc,
                   callLog, callResult, callStable, callFailed, calls, sent>>
    /\ UNCHANGED <<rxVars, fnVars>>

\* after await asyncio.sleep(3): self._bg_task = asyncio.create_task(self._sendDataLoop())
OpenStartsPolling ==
    /\ openpc = "sleep3"
    /\ pollpc' = "created"
    /\ openpc' = IF notifyChar THEN "subscribing" ELSE "returned"
    /\ UNCHANGED <<client, connected, writerChar, notifyChar, notifying, isOpen, closepc,
                   polls, callOp, callProg, callpc, callLog, callResult, callStable, callFailed, calls, sent>>
    /\ UNCHANGED <<rxVars, fnVars>>

\* await self.client.start_notify(...) returns, or raises (it cannot succeed on
\* a client that is no longer connected)
OpenSubscribed(ok) ==
    /\ openpc = "subscribing"
    /\ ok => connected
    /\ notifying' = ok
    /\ openpc' = IF ok THEN "returned" ELSE "raised"
    /\ UNCHANGED <<client, connected, writerChar, notifyChar, isOpen, closepc, pollpc,
                   polls, callOp, callProg, callpc, callLog, callResult, callStable, callFailed, calls, sent>>
    /\ UNCHANGED <<rxVars, fnVars>>

-----------------------------------------------------------------------------
(* closeDevice *)

\* a closeDevice that awaits the polling task without cancelling it
CloseStartNoCancel ==
    /\ closepc = "init"
    /\ isOpen' = FALSE
    /\ IF pollpc = "none"
       THEN IF client /\ connected
            THEN closepc' = "disconnecting"
            ELSE closepc' = "done"
       ELSE closepc' = "awaitTask"
    /\ UNCHANGED <<client, connected, writerChar, notifyChar, notifying, openpc, pollpc, polls,
                   callOp, callProg, callpc, callLog, callResult, callStable, callFailed, calls, sent>>
    /\ UNCHANGED <<rxVars, fnVars>>

\* self.isOpen = False; if self._bg_task: cancel it and await it. A task that is
\* suspended (or has not started) ends cancelled without running again.
CloseStart ==
    /\ closepc = "init"
    /\ isOpen' = FALSE
    /\ IF pollpc = "none"
       THEN IF client /\ connected
            THEN closepc' = "disconnecting"
            ELSE closepc' = "done"
       ELSE closepc' = "awaitTask"
    /\ pollpc' = IF pollpc \in {"created", "inWrite", "sleeping"} THEN "cancelled" ELSE pollpc
    /\ UNCHANGED <<client, connected, writerChar, notifyChar, notifying, openpc, polls,
                   callOp, callProg, callpc, callLog, callResult, callStable, callFailed, calls, sent>>
    /\ UNCHANGED <<rxVars, fnVars>>

\* await self._bg_task is over: if self.client and self.client.is_connected,
\* stop the notifications and disconnect
CloseTaskAwaited ==
    /\ closepc = "awaitTask"
    /\ closepc' = IF client /\ connected THEN "disconnecting" ELSE "done"
    /\ UNCHANGED <<client, connected, writerChar, notifyChar, notifying, isOpen, openpc,
                   pollpc, polls, callOp, callProg, callpc, callLog, callResult, callStable, callFailed,
                   calls, sent>>
    /\ UNCHANGED <<rxVars, fnVars>>

\* stop_notify for every characteristic (failures swallowed), then
\* await self.client.disconnect() returns
CloseDisconnected ==
    /\ closepc = "disconnecting"
    /\ connected' = FALSE
    /\ notifying' = FALSE
    /\ closepc' = "done"
    /\ callStable' = IF callpc \in {"inWrite", "sleeping"} THEN FALSE ELSE callStable
    /\ UNCHANGED <<client, writerChar, notifyChar, isOpen, openpc, pollpc, polls, callOp,
                   callProg, callpc, callLog, callResult, callFailed, calls, sent>>
    /\ UNCHANGED <<rxVars, fnVars>>

\* The link to the device is lost (environment)
LinkLost ==
    /\ connected
    /\ connected' = FALSE
    /\ notifying' = FALSE
    /\ callStable' = IF callpc \in {"inWrite", "sleeping"} THEN FALSE ELSE callStable
    /\ UNCHANGED <<client, writerChar, notifyChar, isOpen, openpc, closepc, pollpc, polls,
                   callOp, callProg, callpc, callLog, callResult, callFailed, calls, sent>>
    /\ UNCHANGED <<rxVars, fnVars>>

CmdInit ==
    /\ client = FALSE
    /\ connected = FALSE
    /\ writerChar = FALSE
    /\ notifyChar = FALSE
    /\ notifying = FALSE
    /\ isOpen = FALSE
    /\ openpc = "init"
    /\ closepc = "init"
    /\ pollpc = "none"
    /\ polls = 0
    /\ callOp = <<>>
    /\ callProg = <<>>
    /\ callpc = "idle"
    /\ callLog = <<>>
    /\ callResult = "none"
    /\ callStable = FALSE
    /\ callFailed = FALSE
    /\ calls = 0
    /\ sent = <<>>

-----------------------------------------------------------------------------
(* Pure functions applied to drawn inputs *)

AllRegs == 0..255

AllValues == 0..65535

EdgeValues == {0, 1, 9, 255, 256, 32767, 32768, 46472, 65280, 65535}

FnInputs ==
    {<<"get_readBytes", r>> : r \in AllRegs}
    \cup {<<"get_writeBytes", r, v>> : r \in AllRegs, v \in EdgeValues}
    \cup {<<"get_writeBytes", r, v>> : r \in {3, 105}, v \in AllValues}

FnApply ==
    /\ fnOut = <<>>
    /\ fnIn # <<>>
    /\ fnOut' = IF fnIn[1] = "get_readBytes" THEN << get_readBytes(fnIn[2]) >>
                ELSE << get_writeBytes(fnIn[2], fnIn[3]) >>
    /\ UNCHANGED fnIn
    /\ UNCHANGED <<rxVars, cmdVars>>

FnIdle ==
    /\ fnIn = <<>>
    /\ fnOut = <<>>

-----------------------------------------------------------------------------
(* The store and the decoder applied to drawn inputs *)

StoreKeys == {"AccX", "Q0", "HZ"}

StoreValues == {0, 500}

\* the sequences of set calls a caller may make on a fresh DeviceModel
SetSeqs == UNION {[1..n -> StoreKeys \X StoreValues] : n \in 0..MaxSets}

\* the store after the constructor and after each set call of the sequence
StoreRun(sets) == [k \in 1..(Len(sets) + 1) |-> ApplySets(<<>>, SubSeq(sets, 1, k - 1))]

\* get(name) for every channel name on a store
GetAll(data) == [c \in Channels |-> Get(data, c)]

AllRaws == 0..65535

EdgeRaws == {0, 1, 255, 256, 4660, 16384, 20480, 32767, 32768, 49152, 65280, 65535}

\* the bytes of a test packet that are not the field under test: all different
Background(k) == (7 * k + 3) % 256

\* a frame of the given type (and discriminator, for type 0x71) whose byte pair
\* at packet offsets (lo, lo + 1) holds raw, low byte first
MakePacket(type, sub, lo, raw) ==
    [i \in 1..FrameLen |->
        IF i = 1 THEN Header
        ELSE IF i = 2 THEN type
        ELSE IF i = 3 /\ type = TypeOrient THEN sub
        ELSE IF i = lo + 1 THEN raw % 256
        ELSE IF i = lo + 2 THEN raw \div 256
        ELSE Background(i - 1)]

\* The inputs: a sequence of set calls; a raw value to sign-extend; a frame to
\* decode, given as <<type, discriminator, offset of the pair, raw>>: every
\* field of the three frame kinds on the edge values, and the first field of
\* each scale on every raw value.
DecInput(in) ==
    \/ \E sets \in SetSeqs : in = <<"store", sets>>
    \/ \E raw \in AllRaws : in = <<"getSignInt16", raw>>
    \/ \E f \in 0..8, raw \in EdgeRaws : in = <<"processData", TypeMotion, 0, 2 + 2 * f, raw>>
    \/ \E f \in 0..2, raw \in EdgeRaws : in = <<"processData", TypeOrient, SubMag, 4 + 2 * f, raw>>
    \/ \E f \in 0..3, raw \in EdgeRaws : in = <<"processData", TypeOrient, SubQuat, 4 + 2 * f, raw>>
    \/ \E f \in 0..2, raw \in AllRaws : in = <<"processData", TypeMotion, 0, 2 + 6 * f, raw>>
    \/ \E raw \in AllRaws : in = <<"processData", TypeOrient, SubMag, 4, raw>>
    \/ \E raw \in AllRaws : in = <<"processData", TypeOrient, SubQuat, 4, raw>>

DecApply ==
    /\ fnOut = <<>>
    /\ fnIn # <<>>
    /\ fnOut' = IF fnIn[1] = "store"
                THEN << [stores |-> StoreRun(fnIn[2]),
                         gets |-> GetAll(StoreRun(fnIn[2])[Len(fnIn[2]) + 1])] >>
                ELSE IF fnIn[1] = "getSignInt16"
                THEN << getSignInt16(fnIn[2]) >>
                ELSE LET packet == MakePacket(fnIn[2], fnIn[3], fnIn[4], fnIn[5])
                     IN  << [packet |-> packet, result |-> ProcessData(packet, <<>>, "ok")] >>
    /\ UNCHANGED fnIn
    /\ UNCHANGED <<rxVars, cmdVars>>

-----------------------------------------------------------------------------
(* Specifications *)

Init == RxInit /\ CmdInit /\ FnIdle

\* the receive pipeline
Next ==
    \/ \E u \in SensorUnits : SensorEmit(u)
    \/ \E n \in 0..Len(wire) : OnDataReceived(n)
    \/ DropBadHeader
    \/ DropBadType
    \/ \E o \in {"ok", "log_raises", "callback_raises"} : ExtractFrame(o)
    \/ LoopExit

Spec == Init /\ [][Next]_vars

\* the session and the command path
CmdNext ==
    \/ OpenStart
    \/ OpenConnectFails
    \/ \E n, w \in BOOLEAN : OpenConnected(n, w)
    \/ OpenStartsPolling
    \/ \E ok \in BOOLEAN : OpenSubscribed(ok)
    \/ CloseStart
    \/ CloseTaskAwaited
    \/ CloseDisconnected
    \/ LinkLost
    \/ PollRun
    \/ \E o \in {"ok", "error"} : PollWriteDone(o)
    \/ \E op \in Operations : CallStart(op)
    \/ \E o \in {"ok", "error"} : CallWriteDone(o)
    \/ CallWake

CmdSpec == Init /\ [][CmdNext]_vars

\* the session and its polling task alone. The event loop runs a task that is
\* ready (a sleep that is over, a task just created), and the transport ends
\* every write it was given, with success or with an error.
PollNext ==
    \/ OpenStart
    \/ OpenConnectFails
    \/ \E n, w \in BOOLEAN : OpenConnected(n, w)
    \/ OpenStartsPolling
    \/ \E ok \in BOOLEAN : OpenSubscribed(ok)
    \/ CloseStart
    \/ CloseTaskAwaited
    \/ CloseDisconnected
    \/ LinkLost
    \/ PollRun
    \/ \E o \in {"ok", "error"} : PollWriteDone(o)

PollSpec ==
    /\ Init /\ [][PollNext]_vars
    /\ WF_vars(OpenStartsPolling)
    /\ WF_vars(PollRun)
    /\ WF_vars(\E o \in {"ok", "error"} : PollWriteDone(o))
    /\ WF_vars(CloseTaskAwaited)

\* the command encoders on every register and on edge and sampled values
FnInit == RxInit /\ CmdInit /\ fnIn \in FnInputs /\ fnOut = <<>>

FnNext == FnApply

FnSpec == FnInit /\ [][FnNext]_vars

\* the store and the decoder on drawn inputs
DecInit == RxInit /\ CmdInit /\ DecInput(fnIn) /\ fnOut = <<>>

DecNext == DecApply

DecSpec == DecInit /\ [][DecNext]_vars


-----------------------------------------------------------------------------
(* Properties of the receive pipeline (checked under Spec) *)

Min(S) == CHOOSE x \in S : \A y \in S : x <= y

AllFrames(us) == \A i \in 1..Len(us) : IsValidFrame(us[i])

IsSample(packet) ==
    \/ packet[2] = 97
    \/ packet[2] = 113 /\ packet[3] \in {58, 81}

FrameEvents(tr) == SelectSeq(tr, LAMBDA e : e[1] = "frame")

DropEvents(tr) == SelectSeq(tr, LAMBDA e : e[1] = "drop")

CallbackEvents(tr) == SelectSeq(tr, LAMBDA e : e[1] = "callback")

\* the trace without the packet log lines
Effects(tr) == SelectSeq(tr, LAMBDA e : e[1] # "log")

\* the effects of the frame extracted at position i of tr: what follows it up to
\* the next extraction or drop
EffectsOfFrame(tr, i) ==
    LET later == {j \in (i + 1)..Len(tr) : tr[j][1] \in {"frame", "drop"}}
        stop == IF later = {} THEN Len(tr) + 1 ELSE Min(later)
    IN  SubSeq(tr, i + 1, stop - 1)

Raised(seg) == seg # <<>> /\ seg[Len(seg)][1] = "raise"

\* seg is: the set calls of the packet, in order, then one callback that sees them
SetsThenOneCallback(packet, seg) ==
    LET sets == SetsOf(packet)
        n == Len(sets)
    IN  /\ Len(seg) = n + 1
        /\ SubSeq(seg, 1, n) = SetEvents(sets)
        /\ seg[n + 1][1] = "callback"
        /\ \A k \in 1..n : Get(seg[n + 1][2], sets[k][1]) = sets[k][2]

\* C1: fragmentation invariance. When the stream is the serialization of N valid
\* frames and has been passed to onDataReceived in any number of chunks of any
\* lengths, the frames handed to processData, the store writes and the callback
\* invocations, in order, and the resulting store and buffer are those of a
\* single onDataReceived call with the whole stream.
C1_FragmentationInvariance ==
    (rxpc = "idle" /\ failures = 0 /\ wire = <<>> /\ AllFrames(units)) =>
        LET whole == WholeRun(Flatten(units))
        IN  /\ fed = Flatten(units)
            /\ trace = whole.trace
            /\ deviceData = whole.data
            /\ buffer = whole.buffer
            /\ Len(FrameEvents(trace)) = Len(units)

\* C1 witness: three valid frames, passed in chunks that split a frame, all processed
C1_Witness ==
    /\ rxpc = "idle" /\ failures = 0 /\ wire = <<>> /\ AllFrames(units)
    /\ Len(units) = 3
    /\ splitSeen
    /\ Len(FrameEvents(trace)) = 3

GarbageThenFrame(us) ==
    /\ Len(us) >= 2
    /\ IsValidFrame(us[Len(us)])
    /\ \A i \in 1..(Len(us) - 1) : Len(us[i]) = 1
    /\ \A i \in 1..(Len(us) - 1) :
          ~(Flatten(us)[i] = 85 /\ Flatten(us)[i + 1] \in {97, 113})

\* C2: resync correctness. From an empty buffer, K garbage bytes without a false
\* header+type match followed by one valid frame give exactly K single-byte
\* drops (of those bytes, in order), then the extraction of exactly that frame,
\* and the store holds what the frame alone gives.
C2_ResyncCorrectness ==
    (rxpc = "idle" /\ failures = 0 /\ wire = <<>> /\ GarbageThenFrame(units)) =>
        LET K == Len(units) - 1
            frame == units[Len(units)]
            alone == WholeRun(frame)
        IN  /\ Len(DropEvents(trace)) = K
            /\ SubSeq(trace, 1, K) = [i \in 1..K |-> <<"drop", units[i][1]>>]
            /\ FrameEvents(trace) = << <<"frame", frame>> >>
            /\ trace[K + 1] = <<"frame", frame>>
            /\ SubSeq(trace, K + 1, Len(trace)) = alone.trace
            /\ deviceData = alone.data
            /\ buffer = <<>>

\* C2 witness: two garbage bytes (one fails the header test, one the type test)
\* were dropped before a motion frame was decoded
C2_Witness ==
    /\ rxpc = "idle" /\ failures = 0 /\ wire = <<>>
    /\ units = << <<97>>, <<85>>, FrameMotion >>
    /\ Len(DropEvents(trace)) = 2
    /\ "AccX" \in DOMAIN deviceData

C8_BufferLengthSteps ==
    [][ LET d == Len(buffer') - Len(buffer)
            chunk == SubSeq(fed', Len(fed) + 1, Len(fed'))
        IN  \/ d = 0 /\ buffer' = buffer
            \/ /\ d > 0
               /\ rxpc = "idle" /\ rxpc' = "loop"
               /\ d = Len(chunk)
               /\ buffer' = buffer \o chunk
               /\ fed' = fed \o chunk
            \/ /\ d = -1
               /\ rxpc = "loop"
               /\ buffer' = Tail(buffer)
               /\ trace' = Append(trace, <<"drop", buffer[1]>>)
            \/ /\ d = -20
               /\ rxpc = "loop"
               /\ buffer' = SubSeq(buffer, 21, Len(buffer))
               /\ Len(trace') > Len(trace)
               /\ trace'[Len(trace) + 1] = <<"frame", SubSeq(buffer, 1, 20)>>
      ]_vars

\* C8 witness: the buffer has grown by appends and shrunk by a drop and by an extraction
C8_Witness ==
    /\ DropEvents(trace) # <<>>
    /\ FrameEvents(trace) # <<>>
    /\ Len(buffer) >= 20
    /\ rxpc = "loop"

\* C9: the drain loop terminates: an iteration is taken only on 20 bytes or more
\* and makes the buffer strictly shorter, so a call makes at most as many
\* iterations as the buffer has bytes; the loop is left normally only with
\* fewer than 20 bytes, so after a normal return the length is in 0..19 until
\* the next call.
C9_DrainTerminates ==
    /\ [](rxpc = "idle" /\ rxExit = "returned" => Len(buffer) \in 0..19)
    /\ [][rxpc = "loop" /\ rxpc' = "loop" =>
            Len(buffer') < Len(buffer) /\ Len(buffer) >= 20]_vars
    /\ [][rxpc = "loop" /\ rxpc' = "idle" /\ rxExit' = "returned" =>
            buffer' = buffer /\ Len(buffer) < 20]_vars

\* C9 witness: a call that dropped and extracted has returned leaving 19 bytes
C9_Witness ==
    /\ rxpc = "idle" /\ rxExit = "returned"
    /\ Len(buffer) = 19
    /\ DropEvents(trace) # <<>>
    /\ FrameEvents(trace) # <<>>

\* C10: every packet handed to processData is 20 bytes long, starts with 0x55
\* and has 0x61 or 0x71 as its second byte, whatever the stream holds.
C10_FrameWellFormed ==
    \A i \in 1..Len(trace) :
        trace[i][1] = "frame" =>
            /\ Len(trace[i][2]) = 20
            /\ trace[i][2][1] = 85
            /\ trace[i][2][2] \in {97, 113}

\* C10 witness: after garbage, a packet that is none of the sensor's frames was
\* extracted (a false lock on garbage bytes 0x55 0x61)
C10_Witness ==
    /\ \E i \in 1..Len(trace) : trace[i][1] = "frame" /\ trace[i][2] \notin SampleFrames
    /\ Len(units) >= 3

\* C11: an extracted frame of type 0x71 whose payload byte 0 (packet[2]) is
\* neither 0x3A nor 0x51 is consumed: exactly its 20 bytes leave the buffer, no
\* error is raised, no channel of the store changes, the callback is not
\* invoked (the extraction is the only effect), and the drain loop goes on.
C11_UnrecognizedFrameDropped ==
    [][ (/\ rxpc = "loop"
         /\ Len(buffer) >= 20
         /\ buffer[1] = 85 /\ buffer[2] = 113
         /\ buffer[3] \notin {58, 81}) =>
            /\ buffer' = SubSeq(buffer, 21, Len(buffer))
            /\ Len(buffer') = Len(buffer) - 20
            /\ deviceData' = deviceData
            /\ trace' = Append(trace, <<"frame", SubSeq(buffer, 1, 20)>>)
            /\ rxpc' = "loop"
            /\ rxExit' = rxExit
            /\ failures' = failures
      ]_vars

\* C11 witness: an unrecognized frame has just been extracted from a buffer that
\* holds a further frame, with a store that earlier frames have filled
C11_Witness ==
    /\ rxpc = "loop"
    /\ trace # <<>>
    /\ trace[Len(trace)] = <<"frame", FrameUnrec>>
    /\ Len(buffer) >= 20
    /\ deviceData # <<>>

\* C22: the consumer callback update_data does not turn an unset channel into
\* 0.0: at every callback invocation, the value it records for a channel that
\* was never set differs from 0.0, the value it records for a channel whose
\* last value is 0.0.
C22_UnsetNotCoalesced ==
    \A i \in 1..Len(trace) :
        trace[i][1] = "callback" =>
            \A c \in RowChannels :
                c \notin DOMAIN trace[i][2] => update_data(trace[i][2])[c] # 0

\* the stream bytes an extraction or a drop has taken
BytesOf(e) == IF e[1] = "frame" THEN e[2] ELSE << e[2] >>

\* all bytes taken by the extractions and drops of a trace, in order
RECURSIVE ConsumedBytes(_)
ConsumedBytes(es) == IF es = <<>> THEN <<>> ELSE BytesOf(Head(es)) \o ConsumedBytes(Tail(es))

\* C24: in every reachable state, the bytes dropped by resync steps and the
\* frames extracted so far, concatenated in the order of these steps, followed
\* by the buffer, are exactly the concatenation of the chunks passed to
\* onDataReceived so far: no byte is lost, duplicated or reordered.
C24_ByteConservation ==
    LET taken == ConsumedBytes(SelectSeq(trace, LAMBDA e : e[1] \in {"frame", "drop"}))
    IN  /\ taken \o buffer = fed
        /\ Len(taken) + Len(buffer) = Len(fed)
        /\ Len(fed) + Len(wire) = Len(Flatten(units))

\* C24 witness: after drops, an extraction and a processData that raised, the
\* buffer still holds bytes of the stream
C24_Witness ==
    /\ rxpc = "idle" /\ rxExit = "raised"
    /\ DropEvents(trace) # <<>>
    /\ FrameEvents(trace) # <<>>
    /\ Len(buffer) > 0

IsPrefix(a, b) == Len(a) <= Len(b) /\ SubSeq(b, 1, Len(a)) = a

\* the extractions and drops of a trace, in order
Consumed(tr) == SelectSeq(tr, LAMBDA e : e[1] \in {"frame", "drop"})

\* the number of stream bytes an extraction or a drop takes
SizeOf(e) == IF e[1] = "frame" THEN Len(e[2]) ELSE 1

RECURSIVE TotalSize(_)
TotalSize(es) == IF es = <<>> THEN 0 ELSE SizeOf(Head(es)) + TotalSize(Tail(es))

\* where in the stream the i-th extraction or drop starts (0-based offset)
StartOf(es, i) == TotalSize(SubSeq(es, 1, i - 1))

\* what processData does for a packet when it returns
EffectsWhenOk(packet) ==
    SetEvents(SetsOf(packet))
    \o (IF packet[2] = 97 THEN << <<"callback">> >> ELSE <<>>)

\* a trace segment without the store snapshots of its callbacks and without a final raise
Shape(seg) ==
    LET body == IF Raised(seg) THEN SubSeq(seg, 1, Len(seg) - 1) ELSE seg
    IN  [k \in 1..Len(body) |-> IF body[k][1] = "callback" THEN <<"callback">> ELSE body[k]]

\* C21: the frames are extracted in the order in which their first bytes
\* arrived: the i-th extraction is the 20 bytes of the stream at an offset
\* beyond those of all earlier extractions; the store writes and the callback
\* of a frame come after its extraction and before the next extraction or
\* drop, so they happen in the order of the frames, over any number of
\* onDataReceived calls.
C21_EmissionOrder ==
    LET tr == Effects(trace)
        es == Consumed(trace)
    IN  /\ \A i \in 1..Len(es) :
              es[i][1] = "frame" =>
                  /\ StartOf(es, i) + 20 <= Len(fed)
                  /\ es[i][2] = SubSeq(fed, StartOf(es, i) + 1, StartOf(es, i) + 20)
                  /\ \A j \in 1..(i - 1) : StartOf(es, j) < StartOf(es, i)
        /\ \A i \in 1..Len(tr) :
              tr[i][1] = "frame" =>
                  /\ IsPrefix(Shape(EffectsOfFrame(tr, i)), EffectsWhenOk(tr[i][2]))
                  /\ ~Raised(EffectsOfFrame(tr, i)) =>
                        Shape(EffectsOfFrame(tr, i)) = EffectsWhenOk(tr[i][2])
        /\ tr # <<>> => tr[1][1] \in {"frame", "drop"}

\* C21 witness: a quaternion frame, then a garbage byte, then a motion frame
\* arrived in chunks that split a frame; Q0 was written before AccX
C21_Witness ==
    /\ rxpc = "idle" /\ wire = <<>> /\ failures = 0
    /\ splitSeen
    /\ units = <<FrameQuat, <<97>>, FrameMotion>>
    /\ \E i, j \in 1..Len(trace) :
          /\ i < j
          /\ trace[i][1] = "set" /\ trace[i][2] = "Q0"
          /\ trace[j][1] = "set" /\ trace[j][2] = "AccX"

\* C26: when processData raises for a frame (in the packet log write or in the
\* callback), the frame has left the buffer and the buffer holds the bytes of
\* the stream after it, in order; no frame is delivered twice; and once a later
\* onDataReceived call has returned, every complete frame after the failed one
\* has been extracted and decoded, in order and with all its effects.
C26_FailureKeepsFraming ==
    /\ (rxpc = "idle" /\ rxExit = "raised") =>
            LET es == Consumed(trace)
            IN  /\ Raised(trace)
                /\ es # <<>> /\ es[Len(es)][1] = "frame"
                /\ buffer = SubSeq(fed, TotalSize(es) + 1, Len(fed))
    /\ (failures > 0 /\ rxpc = "idle" /\ AllFrames(units)) =>
            LET fs == FrameEvents(trace)
                tr == Effects(trace)
            IN  /\ Len(fs) <= Len(units)
                /\ fs = [i \in 1..Len(fs) |-> <<"frame", units[i]>>]
                /\ (rxExit = "returned" /\ wire = <<>>) =>
                       (Len(fs) = Len(units) /\ buffer = <<>>)
                /\ \A i \in 1..Len(tr) :
                       (tr[i][1] = "frame" /\ ~Raised(EffectsOfFrame(tr, i))) =>
                           Shape(EffectsOfFrame(tr, i)) = EffectsWhenOk(tr[i][2])
                /\ Len(SelectSeq(trace, LAMBDA e : e[1] = "raise")) = failures

\* C26 witness: the callback raised for a motion frame; a later call has
\* returned, and the quaternion and the motion frame after it were decoded
C26_Witness ==
    /\ failures = 1
    /\ rxpc = "idle" /\ rxExit = "returned" /\ wire = <<>> /\ buffer = <<>>
    /\ units = <<FrameMotion, FrameQuat, FrameMotion>>
    /\ \E k \in 1..Len(trace) : trace[k] = <<"raise", "callback_raises">>
    /\ Len(FrameEvents(trace)) = 3
    /\ Len(CallbackEvents(trace)) = 2
    /\ "Q0" \in DOMAIN deviceData

-----------------------------------------------------------------------------
(* Properties of the command path (checked under CmdSpec) *)

SentByCall(id) == SelectSeq(sent, LAMBDA e : e.by = "call" /\ e.call = id)

\* the three commands of a persisted write, each issued after the previous one
\* has completed, with the two settle waits
PersistedWriteLog(reg, value) ==
    << <<"write", <<255, 170, 105, 136, 181>>>>, <<"completed">>, <<"sleep">>,
       <<"write", <<255, 170, reg, value % 256, value \div 256>>>>, <<"completed">>, <<"sleep">>,
       <<"write", <<255, 170, 0, 0, 0>>>>, <<"completed">> >>

\* C3: one call of writeReg(reg, value) on a device that is connected with a
\* write characteristic (and stays so) hands exactly three commands to the
\* transport: unlock, the target write, save, in this order; each is issued
\* only after the previous one has completed and a settle wait has passed.
C3_PersistedWriteOrdering ==
    (callpc # "idle" /\ callOp[1] = "writeReg" /\ callStable) =>
        /\ IsPrefix(callLog, PersistedWriteLog(callOp[2], callOp[3]))
        /\ callpc = "done" =>
              /\ callLog = PersistedWriteLog(callOp[2], callOp[3])
              /\ [i \in 1..Len(SentByCall(calls)) |-> SentByCall(calls)[i].cmd]
                    = << <<255, 170, 105, 136, 181>>,
                         <<255, 170, callOp[2], callOp[3] % 256, callOp[3] \div 256>>,
                         <<255, 170, 0, 0, 0>> >>

\* C3 witness: writeReg(0x03, 0x09) has run to its end on a connected device
\* while the polling task was sending too
C3_Witness ==
    /\ callpc = "done"
    /\ callOp = <<"writeReg", 3, 9>>
    /\ callStable
    /\ Len(SentByCall(calls)) = 3
    /\ polls > 0

\* C4: the commands of a writeReg call reach the transport contiguously: no
\* poll read of _sendDataLoop lies between two commands of the same call.
C4_NoInterleaving ==
    \A i, j, k \in 1..Len(sent) :
        (/\ i < j /\ j < k
         /\ sent[i].by = "call" /\ sent[i].op = "writeReg"
         /\ sent[k].by = "call" /\ sent[k].call = sent[i].call)
            => sent[j].by # "poll"

\* the number of sendData calls of an operation
SendSteps(prog) == Len(SelectSeq(prog, LAMBDA st : st[1] = "send"))

\* C6: when a transport write of an operation has failed, the operation ends
\* by raising to its caller; no command of it is written more often than the
\* operation asks for.
C6_WriteFailurePropagated ==
    /\ (callpc = "done" /\ callFailed) => callResult = "raised"
    /\ callpc # "idle" => Len(SentByCall(calls)) <= SendSteps(Program(callOp))

\* what one set_sampling_rate(code) does on a ready device: unlock, settle wait,
\* the persisted write of (0x03, code), settle wait, save
SamplingRateLog(code) ==
    << <<"write", <<255, 170, 105, 136, 181>>>>, <<"completed">>, <<"sleep">> >>
    \o PersistedWriteLog(3, code)
    \o << <<"sleep">>, <<"write", <<255, 170, 0, 0, 0>>>>, <<"completed">> >>

\* C13: set_sampling_rate(code) on a device that is connected with a write
\* characteristic (and stays so) issues the unlock command, waits, runs the
\* whole persisted-write sequence of writeReg(0x03, code), waits (and ends with
\* a save); the write command for (0x03, code) goes to the transport exactly
\* once in the call, after an unlock and before a save. In no case does a call
\* hand it to the transport more than once.
C13_SamplingRateHandshake ==
    (callpc # "idle" /\ callOp[1] = "set_sampling_rate") =>
        LET target == <<255, 170, 3, callOp[2] % 256, callOp[2] \div 256>>
            mine == SentByCall(calls)
            at == {i \in 1..Len(mine) : mine[i].cmd = target}
        IN  /\ Cardinality(at) <= 1
            /\ callStable =>
                  /\ IsPrefix(callLog, SamplingRateLog(callOp[2]))
                  /\ callpc = "done" =>
                        /\ callLog = SamplingRateLog(callOp[2])
                        /\ Cardinality(at) = 1
                        /\ \A i \in at :
                              /\ \E j \in 1..(i - 1) : mine[j].cmd = <<255, 170, 105, 136, 181>>
                              /\ \E j \in (i + 1)..Len(mine) : mine[j].cmd = <<255, 170, 0, 0, 0>>

\* C13 witness: set_sampling_rate(0x09) has run to its end on a connected device
\* while the polling task was sending too
C13_Witness ==
    /\ callpc = "done"
    /\ callOp = <<"set_sampling_rate", 9>>
    /\ callStable
    /\ Len(SentByCall(calls)) = 5
    /\ polls > 0

\* C17: as long as the session has no write characteristic (openDevice found
\* none, or has not searched yet) there is no polling task and no command has
\* been handed to the transport, whatever operations have been called: every
\* sendData of them returns without writing.
C17_NoTrafficWithoutWriter ==
    ~writerChar =>
        /\ pollpc = "none"
        /\ polls = 0
        /\ sent = <<>>
        /\ callpc # "inWrite"
        /\ \A i \in 1..Len(callLog) : callLog[i][1] \in {"skipped", "sleep"}

\* C17 witness: openDevice has returned on a connected device without a write
\* characteristic, subscribed to notifications, and a writeReg has run to its
\* end with its three commands skipped
C17_Witness ==
    /\ openpc = "returned" /\ connected /\ notifying /\ isOpen
    /\ ~writerChar
    /\ callpc = "done"
    /\ callOp = <<"writeReg", 3, 9>>
    /\ Len(SelectSeq(callLog, LAMBDA e : e[1] = "skipped")) = 3
    /\ sent = <<>>

\* the two shapes of a command: [0xFF,0xAA,0x27,reg,0x00] and [0xFF,0xAA,reg,valLo,valHi]
IsCommand(cmd) ==
    /\ Len(cmd) = 5
    /\ \A i \in 1..5 : cmd[i] \in 0..255
    /\ cmd[1] = 255 /\ cmd[2] = 170

\* C18: every byte sequence handed to the transport's write, by the polling
\* loop, by writeReg / set_sampling_rate / readReg or by the applications'
\* calibration command, is exactly 5 bytes long and has the shape of a read
\* or of a write command.
C18_EveryCommandFiveBytes ==
    \A i \in 1..Len(sent) : IsCommand(sent[i].cmd)

\* the target write of the running writeReg call, as a log entry
TargetWrite == <<"write", <<255, 170, callOp[2], callOp[3] % 256, callOp[3] \div 256>>>>

\* the positions of the target write in the log of the call
TargetAt == {k \in 1..Len(callLog) : callLog[k] = TargetWrite}

\* the target write is in the log only after an unlock of the call that the transport has ended
UnlockIssuedBefore ==
    \A k \in TargetAt :
        \E j \in 1..(k - 2) :
            callLog[j] = <<"write", <<255, 170, 105, 136, 181>>>> /\ callLog[j + 1] = <<"completed">>

\* when the target write is handed to the transport, no write of the call (the
\* unlock is the only one before it) has failed
UnlockAcceptedBefore ==
    (callLog # <<>> /\ callLog[Len(callLog)] = TargetWrite) => ~callFailed

\* a call whose writes were all accepted has a save after its target write
SaveFollows ==
    (callpc = "done" /\ ~callFailed) =>
        \A k \in TargetAt :
            \E j \in (k + 1)..Len(callLog) : callLog[j] = <<"write", <<255, 170, 0, 0, 0>>>>

\* C23: in every execution of writeReg, also when a transport write fails or
\* the connection changes between the steps, the target write is handed to the
\* transport only after the unlock of the same call was accepted, and an
\* accepted target write is followed by a save of the same call.
C23_UnlockPrecedesWrite ==
    (callpc # "idle" /\ callOp[1] = "writeReg") =>
        /\ UnlockIssuedBefore
        /\ UnlockAcceptedBefore
        /\ SaveFollows

\* C25: once closeDevice has completed, the polling loop hands no command to
\* the transport: the polling task is not inside a transport write, nor
\* between two ticks of a running loop, whenever closeDevice ran (also during
\* openDevice, also while a writeReg or set_sampling_rate call was waiting).
C25_NoPollingAfterClose ==
    closepc = "done" => pollpc \notin {"inWrite", "sleeping"}

-----------------------------------------------------------------------------
(* Properties of the polling task (checked under PollSpec) *)

SentByPoll == SelectSeq(sent, LAMBDA e : e.by = "poll")

\* openDevice has found the write characteristic, and the polling task is about
\* to be created or exists and has not ended
PollingStarted ==
    openpc = "sleep3" \/ pollpc \in {"created", "inWrite", "sleeping"}

\* every command the polling loop has emitted is the read of register 0x51,
\* and it has emitted one per tick
PollEmitsOnlyReads ==
    /\ Len(SentByPoll) = polls
    /\ \A i \in 1..Len(SentByPoll) : SentByPoll[i].cmd = <<255, 170, 39, 81, 0>>

\* C14 as stated: once openDevice has found the write characteristic, and as
\* long as closeDevice has not been called, the polling loop emits a further
\* read of register 0x51 at every tick (here: up to MaxPolls ticks); every
\* command it emits is that read.
C14_PollingWhileNotClosed ==
    /\ [] PollEmitsOnlyReads
    /\ \A n \in 0..(MaxPolls - 1) :
          (PollingStarted /\ polls = n) ~> (polls > n \/ closepc # "init")

\* C14 as amended: once openDevice has found the write characteristic, and as
\* long as closeDevice has not been called and the link to the device has not
\* been lost, the polling loop emits a further read of register 0x51 at every
\* tick (here: up to MaxPolls ticks); every command it emits is that read.
C14_PollingWhileConnected ==
    /\ [] PollEmitsOnlyReads
    /\ \A n \in 0..(MaxPolls - 1) :
          (PollingStarted /\ polls = n) ~> (polls > n \/ closepc # "init" \/ ~connected)

\* C14 witness: the loop has emitted MaxPolls reads and sleeps before its next
\* tick, on a session that is still open and connected
C14_Witness ==
    /\ polls = MaxPolls
    /\ Len(SentByPoll) = MaxPolls
    /\ pollpc = "sleeping"
    /\ isOpen /\ connected /\ closepc = "init"

PollTaskOver == pollpc \in {"cancelled", "ended"}

\* C15: closeDevice called when the polling task exists (sleeping between ticks,
\* suspended in a transport write, not yet started, or already ended) cancels
\* it at once and goes on to await it; a task that is over takes no further
\* step, so no write of it completes or is issued afterwards; the await needs
\* no step of the task or the transport and ends, and closeDevice then reaches
\* the disconnect (or its end, on a lost link) with the task over.
C15_TeardownWithoutWaiting ==
    /\ [][(closepc = "init" /\ closepc' # "init" /\ pollpc # "none") =>
              (closepc' = "awaitTask" /\ PollTaskOver')]_vars
    /\ [][PollTaskOver => (pollpc' = pollpc /\ polls' = polls)]_vars
    /\ [][(closepc = "awaitTask" /\ closepc' # "awaitTask") =>
              (PollTaskOver /\ closepc' \in {"disconnecting", "done"} /\ sent' = sent)]_vars
    /\ [](closepc = "awaitTask" => (PollTaskOver /\ ENABLED CloseTaskAwaited))
    /\ (closepc = "awaitTask") ~> (closepc \in {"disconnecting", "done"} /\ PollTaskOver)

\* C15 witness: closeDevice has cancelled a polling task that had sent a read,
\* has disconnected and is over
C15_Witness ==
    /\ closepc = "done"
    /\ pollpc = "cancelled"
    /\ polls > 0
    /\ client /\ ~connected /\ ~isOpen

\* C16: openDevice returns normally only when it has found both the notify and
\* the write characteristic (a missing one is raised to the caller); and when
\* connect itself fails, openDevice raises with isOpen still false and no
\* polling task.
C16_MissingCharacteristicsFatal ==
    /\ openpc = "returned" => (notifyChar /\ writerChar)
    /\ (openpc = "raised" /\ ~notifyChar) => (~isOpen /\ ~connected /\ pollpc = "none")

-----------------------------------------------------------------------------
(* Properties of the command encoders (checked under FnSpec) *)

\* C7: get_readBytes(reg) is [0xFF, 0xAA, 0x27, reg, 0x00] and
\* get_writeBytes(reg, v) is [0xFF, 0xAA, reg, v mod 256, v div 256], all bytes,
\* with v = byte3 + 256 * byte4; get_writeBytes(0x03, 0x09) = [0xFF,0xAA,0x03,0x09,0x00]
\* and get_readBytes(0x51) = [0xFF,0xAA,0x27,0x51,0x00].
C7_CommandLayout ==
    fnOut # <<>> =>
        LET out == fnOut[1]
        IN  /\ Len(out) = 5
            /\ \A i \in 1..5 : out[i] \in 0..255
            /\ fnIn[1] = "get_readBytes" => out = <<255, 170, 39, fnIn[2], 0>>
            /\ fnIn[1] = "get_writeBytes" =>
                  /\ out = <<255, 170, fnIn[2], fnIn[3] % 256, fnIn[3] \div 256>>
                  /\ fnIn[3] = out[4] + 256 * out[5]
            /\ fnIn = <<"get_writeBytes", 3, 9>> => out = <<255, 170, 3, 9, 0>>
            /\ fnIn = <<"get_readBytes", 81>> => out = <<255, 170, 39, 81, 0>>

\* C7 witness: the unlock value 0xB588 encoded for register 0x69
C7_Witness ==
    /\ fnIn = <<"get_writeBytes", 105, 46472>>
    /\ fnOut = << <<255, 170, 105, 136, 181>> >>

-----------------------------------------------------------------------------
(* Properties of the store and the decoder (checked under DecSpec) *)

Max(S) == CHOOSE x \in S : \A y \in S : x >= y

\* C12: after any sequence of set calls on a fresh store, get(name) is the value
\* of the last set(name, v) of the sequence, also when v is 0, and is None for
\* a name no call has set; each set call leaves every other channel as it was
\* (unset stays unset, a value stays that value).
C12_LastValueSemantics ==
    (fnOut # <<>> /\ fnIn[1] = "store") =>
        LET sets == fnIn[2]
            out == fnOut[1]
            calls_of(c) == {i \in 1..Len(sets) : sets[i][1] = c}
        IN  /\ \A c \in Channels :
                  IF calls_of(c) = {}
                  THEN out.gets[c] = "None"
                  ELSE out.gets[c] = sets[Max(calls_of(c))][2]
            /\ \A k \in 1..Len(sets) : \A c \in Channels \ {sets[k][1]} :
                  /\ (c \in DOMAIN out.stores[k + 1]) = (c \in DOMAIN out.stores[k])
                  /\ c \in DOMAIN out.stores[k] => out.stores[k + 1][c] = out.stores[k][c]

\* C12 witness: AccX was set to 500 and later to 0, Q0 to 500 in between, HZ never
C12_Witness ==
    /\ fnIn = <<"store", << <<"AccX", 500>>, <<"Q0", 500>>, <<"AccX", 0>> >> >>
    /\ fnOut # <<>>
    /\ fnOut[1].gets["AccX"] = 0
    /\ fnOut[1].gets["Q0"] = 500
    /\ fnOut[1].gets["HZ"] = "None"

\* C19: for every raw in 0..65535, getSignInt16(raw) is raw when raw < 32768 and
\* raw - 65536 otherwise; it lies in -32768..32767 and is congruent to raw
\* modulo 65536; getSignInt16 of 0xFFFF, 0x8000, 0x7FFF, 0x0000 is -1, -32768,
\* 32767, 0.
C19_SignExtension ==
    (fnOut # <<>> /\ fnIn[1] = "getSignInt16") =>
        LET raw == fnIn[2]
            out == fnOut[1]
        IN  /\ out = (IF raw < 32768 THEN raw ELSE raw - 65536)
            /\ out \in -32768..32767
            /\ (out - raw) % 65536 = 0
            /\ raw = 65535 => out = -1
            /\ raw = 32768 => out = -32768
            /\ raw = 32767 => out = 32767
            /\ raw = 0 => out = 0

\* C19 witness: 0x8000 has been sign-extended to -32768
C19_Witness ==
    /\ fnIn = <<"getSignInt16", 32768>>
    /\ fnOut = << -32768 >>

Abs(x) == IF x < 0 THEN -x ELSE x

\* v is an integer nearest to s * num / den (den > 0)
Nearest(v, s, num, den) == 2 * Abs(v * den - s * num) <= den

\* the signed 16-bit value of the byte pair at packet offsets (k, k + 1), the
\* first byte being the low byte
SignedPair(packet, k) ==
    LET raw == packet[k + 1] + 256 * packet[k + 2]
    IN  IF raw < 32768 THEN raw ELSE raw - 65536

SetCalls(events) == SelectSeq(events, LAMBDA e : e[1] = "set")

\* C20: processData computes, for a frame of type 0x61, AccX, AccY, AccZ, AsX,
\* AsY, AsZ, AngX, AngY, AngZ, in this order, from the signed little-endian
\* pairs at payload offsets (0,1) .. (16,17) (packet offsets 2 .. 19), scaled by
\* 16*9.80665/32768, 2000/32768 and 180/32768; for type 0x71 with payload byte
\* 0 = 0x3A, HX, HY, HZ from payload bytes 2-7 divided by 120; with 0x51,
\* Q0..Q3 from payload bytes 2-9 divided by 32768. Values are in thousandths
\* (Q0..Q3: in 10^-5), rounded to the nearest: 1000*16*9.80665/32768 is
\* 4 + 32293/40960. Raw Q0 = 0x4000 gives 0.5, raw AccX = 0x4000 gives 78.453.
C20_FieldLayout ==
    (fnOut # <<>> /\ fnIn[1] = "processData") =>
        LET packet == fnOut[1].packet
            sets == SetCalls(fnOut[1].result.events)
            data == fnOut[1].result.data
            names == [i \in 1..Len(sets) |-> sets[i][2]]
            value(i) == sets[i][3]
        IN  /\ \A i \in 1..Len(sets) : data[names[i]] = value(i)
            /\ DOMAIN data = {names[i] : i \in 1..Len(sets)}
            /\ IF packet[2] = 97
               THEN /\ names = <<"AccX", "AccY", "AccZ", "AsX", "AsY", "AsZ", "AngX", "AngY", "AngZ">>
                    /\ \A f \in 0..2 :
                          Nearest(value(f + 1) - 4 * SignedPair(packet, 2 + 2 * f),
                                  SignedPair(packet, 2 + 2 * f), 32293, 40960)
                    /\ \A f \in 3..5 :
                          Nearest(value(f + 1), SignedPair(packet, 2 + 2 * f), 15625, 256)
                    /\ \A f \in 6..8 :
                          Nearest(value(f + 1), SignedPair(packet, 2 + 2 * f), 5625, 1024)
                    /\ (packet[3] = 0 /\ packet[4] = 64) => value(1) = 78453
               ELSE IF packet[3] = 58
               THEN /\ names = <<"HX", "HY", "HZ">>
                    /\ \A f \in 0..2 :
                          Nearest(value(f + 1), SignedPair(packet, 4 + 2 * f), 25, 3)
               ELSE /\ packet[3] = 81
                    /\ names = <<"Q0", "Q1", "Q2", "Q3">>
                    /\ \A f \in 0..3 :
                          Nearest(value(f + 1), SignedPair(packet, 4 + 2 * f), 3125, 1024)
                    /\ (packet[5] = 0 /\ packet[6] = 64) => value(1) = 50000

\* C20 witness: a quaternion frame with raw Q0 = 0x4000 was decoded to Q0 = 0.5,
\* with Q1 taken from the bytes after it
C20_Witness ==
    /\ fnIn = <<"processData", 113, 81, 4, 16384>>
    /\ fnOut # <<>>
    /\ fnOut[1].result.data["Q0"] = 50000
    /\ fnOut[1].result.data["Q1"] = QuatValue(45 + 256 * 52)

=============================================================================
